---- MODULE Spec2Model ----
(***************************************************************************)
(* Model of the boompow server core:                                       *)
(*   - the HTTP authentication middleware and the authorization           *)
(*     predicates of package middleware,                                   *)
(*   - the two channels runServer creates and the goroutines it starts    *)
(*     on them (statsChan, blockAwardedChan).                              *)
(* Strings the code inspects character by character (the Authorization    *)
(* header) are sequences of one-character strings.                         *)
(***************************************************************************)
EXTENDS Integers, Sequences, FiniteSets, TLC

VARIABLES
    \* ---- collaborators of AuthMiddleware (read-only during a request)
    serviceTokens,      \* utils.GetServiceTokens(): the configured headers
    serviceTokenUser,   \* redis: service header -> bound user id ("" = no key)
    resetTokens,        \* redis: emails holding a reset-password token
    users,              \* user table: key -> models.User or Nil
    \* ---- one request through AuthMiddleware
    header,             \* r.Header.Get("Authorization")
    status,             \* status written by the middleware, 0 = none written
    body,               \* body written by the middleware
    nextCalls,          \* number of next.ServeHTTP calls made for the request
    ctxValue,           \* ctx.Value(userCtxKey) of the request given to next
    \* ---- the gate predicates applied to an arbitrary context
    gateCtx,            \* ctx.Value(userCtxKey) handed to a predicate
    gateName,           \* the predicate last applied
    gateResult,         \* what it returned
    \* ---- statsChan and its goroutines
    statsChan,          \* buffer of the channel: stamps of the queued messages
    readPc,             \* connection read loop -> "reading" | "sending"
    sentCount,          \* sends on statsChan that have completed
    drained,            \* messages StatsWorker has received, in order
    \* ---- blockAwardedChan and its goroutines
    statsPc,            \* StatsWorker goroutine -> "loop" | "sending"
    statsMsg,           \* StatsWorker goroutine -> message it is sending
    workSeen,           \* work messages the StatsWorkers have handled
    emitted,            \* messages put up for sending, in order
    bawPc,              \* BlockAwardedWorker goroutine -> "receiving" | "handling"
    bawMsg,             \* BlockAwardedWorker goroutine -> message received
    processed           \* messages the BlockAwardedWorkers have handled, in order

authEnv   == <<serviceTokens, serviceTokenUser, resetTokens, users>>
authReq   == <<header, status, body, nextCalls, ctxValue>>
gateVars  == <<gateCtx, gateName, gateResult>>
statsVars == <<statsChan, readPc, sentCount, drained>>
awardVars == <<statsPc, statsMsg, workSeen, emitted, bawPc, bawMsg, processed>>
vars      == <<authEnv, authReq, gateVars, statsVars, awardVars>>

(***************************************************************************)
(* Strings                                                                 *)
(***************************************************************************)
ResetPasswordPrefix ==
    <<"r","e","s","e","t","p","a","s","s","w","o","r","d",":">>
ServicePrefix == <<"s","e","r","v","i","c","e",":">>

\* strings.HasPrefix(s, prefix)
HasPrefix(s, prefix) ==
    /\ Len(s) >= Len(prefix)
    /\ SubSeq(s, 1, Len(prefix)) = prefix

\* header[len(prefix):]
TrimLen(s, prefix) == SubSeq(s, Len(prefix) + 1, Len(s))

\* a nil pointer
Nil == [nil |-> TRUE]

\* the service header the operator may configure
ServiceHeaders == { ServicePrefix \o <<"s">> }
\* the Authorization headers a request may carry
Headers ==
    { <<>>,
      ResetPasswordPrefix \o <<"a">>, ResetPasswordPrefix \o <<"b">>,
      ResetPasswordPrefix \o <<"c">>, ResetPasswordPrefix \o <<"x">>,
      ResetPasswordPrefix,
      <<"a">>, <<"b">>, <<"c">>, <<"x">>,
      <<"s","e","r","v","i","c","e">>,
      ServicePrefix }
    \cup ServiceHeaders \cup { ServicePrefix \o <<"t">> }

(***************************************************************************)
(* Collaborators                                                           *)
(***************************************************************************)
\* auth.ParseToken: the email a signed token carries, or an error
ParseToken(token) ==
    IF token = <<"a">> THEN [email |-> "a@x", err |-> FALSE]
    ELSE IF token = <<"b">> THEN [email |-> "b@x", err |-> FALSE]
    ELSE IF token = <<"c">> THEN [email |-> "c@x", err |-> FALSE]
    ELSE [email |-> "", err |-> TRUE]

\* redisManager.GetResetPasswordToken: an error when the key is absent
GetResetPasswordToken(email) == [err |-> email \notin resetTokens]

\* redisManager.GetServiceTokenUser: an error when the key is absent
GetServiceTokenUser(h) ==
    IF h \in DOMAIN serviceTokenUser /\ serviceTokenUser[h] # ""
    THEN [userID |-> serviceTokenUser[h], err |-> FALSE]
    ELSE [userID |-> "", err |-> TRUE]

\* uuid.Parse: the strings that are UUIDs parse, all others are an error
UUIDs == {"uuid-A", "uuid-B", "uuid-C"}
UserIDs == UUIDs \cup {"", "not-a-uuid"}
UuidParse(s) == [uuid |-> s, err |-> s \notin UUIDs]

\* the rows the user table may hold: two accounts, each present or not
UserKeys == {"A", "B"}
UserID(k) == IF k = "A" THEN "uuid-A" ELSE "uuid-B"
UserEmail(k) == IF k = "A" THEN "a@x" ELSE "b@x"
UserTypes == {"PROVIDER", "REQUESTER"}
UserRows(k) ==
    [ID : {UserID(k)}, Email : {UserEmail(k)}, EmailVerified : BOOLEAN,
     CanRequestWork : BOOLEAN, Type : UserTypes]

\* UserService.GetUser(id, email): the row with that id (or, with a nil id,
\* that email), or an error when there is none; "" stands for a nil argument
GetUser(id, email) ==
    LET found == { k \in UserKeys :
                     /\ users[k] # Nil
                     /\ IF id # "" THEN users[k].ID = id
                                   ELSE users[k].Email = email }
    IN  IF found = {} THEN [user |-> Nil, err |-> TRUE]
        ELSE [user |-> users[CHOOSE k \in found : TRUE], err |-> FALSE]

(***************************************************************************)
(* AuthMiddleware                                                          *)
(***************************************************************************)
NoBody == [errors |-> <<>>]

\* formatGraphqlError: the marshalled graphql.ErrorResponse; msg is unused
\* (a body is kept as the error list it encodes: the envelope's other
\* fields and the newline http.Error appends are the same in every body)
formatGraphqlError(msg, marshalErr) ==
    IF marshalErr THEN [errors |-> <<[message |-> "Unknown"]>>]
    ELSE [errors |-> <<[message |-> "Invalid token"]>>]

\* http.Error(w, formatGraphqlError(r.Context(), "Invalid Token"), 403); return
\* (json.Marshal cannot fail on an error list of one message)
Forbidden ==
    [status |-> 403, body |-> formatGraphqlError("Invalid Token", FALSE),
     nextCalls |-> 0, ctx |-> Nil]

\* next.ServeHTTP(w, r); return  -- the request context is untouched
PassThrough == [status |-> 0, body |-> NoBody, nextCalls |-> 1, ctx |-> Nil]

\* r = r.WithContext(context.WithValue(..., &UserContextValue{...}));
\* next.ServeHTTP(w, r)
WithUser(user, authType) ==
    [status |-> 0, body |-> NoBody, nextCalls |-> 1,
     ctx |-> [User |-> user, AuthType |-> authType]]

\* ResetPasswordBranch answering 403 when the identity lookup fails
ResetPasswordBranchLookup403(h) ==
    LET token  == TrimLen(h, ResetPasswordPrefix)
        parsed == ParseToken(token)
        stored == GetResetPasswordToken(parsed.email)
        got    == GetUser("", parsed.email)
    IN  IF parsed.err THEN Forbidden
        ELSE IF stored.err THEN Forbidden
        ELSE IF got.err THEN Forbidden
        ELSE WithUser(got.user, "token")

ResetPasswordBranch(h) ==
    LET token  == TrimLen(h, ResetPasswordPrefix)
        parsed == ParseToken(token)
        stored == GetResetPasswordToken(parsed.email)
        got    == GetUser("", parsed.email)
    IN  IF parsed.err THEN Forbidden
        ELSE IF stored.err THEN Forbidden
        ELSE IF got.err THEN PassThrough
        ELSE WithUser(got.user, "token")

\* ServiceBranch tagging the context "jwt"
ServiceBranchJwt(h) ==
    LET bound  == GetServiceTokenUser(h)
        parsed == UuidParse(bound.userID)
        got    == GetUser(parsed.uuid, "")
    IN  IF h \notin serviceTokens THEN Forbidden
        ELSE IF bound.err THEN Forbidden
        ELSE IF parsed.err THEN Forbidden
        ELSE IF got.err THEN PassThrough
        ELSE WithUser(got.user, "jwt")

\* ServiceBranch without the return after a failed uuid.Parse
ServiceBranchNoUuidCheck(h) ==
    LET bound  == GetServiceTokenUser(h)
        parsed == UuidParse(bound.userID)
        got    == GetUser(parsed.uuid, "")
    IN  IF h \notin serviceTokens THEN Forbidden
        ELSE IF bound.err THEN Forbidden
        ELSE IF got.err THEN PassThrough
        ELSE WithUser(got.user, "token")

ServiceBranch(h) ==
    LET bound  == GetServiceTokenUser(h)
        parsed == UuidParse(bound.userID)
        got    == GetUser(parsed.uuid, "")
    IN  IF h \notin serviceTokens THEN Forbidden
        ELSE IF bound.err THEN Forbidden
        ELSE IF parsed.err THEN Forbidden
        ELSE IF got.err THEN PassThrough
        ELSE WithUser(got.user, "token")

BearerBranch(h) ==
    LET parsed == ParseToken(h)
        got    == GetUser("", parsed.email)
    IN  IF parsed.err THEN Forbidden
        ELSE IF got.err THEN PassThrough
        ELSE WithUser(got.user, "jwt")

\* the handler AuthMiddleware installs, as the outcome it produces for h
ServeHTTP(h) ==
    IF h = <<>> THEN PassThrough
    ELSE IF HasPrefix(h, ResetPasswordPrefix) THEN ResetPasswordBranch(h)
    ELSE IF HasPrefix(h, ServicePrefix) THEN ServiceBranch(h)
    ELSE BearerBranch(h)

AuthMiddleware(h) ==
    LET out == ServeHTTP(h)
    IN  /\ header' = h
        /\ status' = out.status
        /\ body' = out.body
        /\ nextCalls' = out.nextCalls
        /\ ctxValue' = out.ctx
        /\ UNCHANGED <<authEnv, gateVars, statsVars, awardVars>>

(***************************************************************************)
(* The gate predicates; each returns the context value or Nil              *)
(***************************************************************************)
AuthorizedUser(cv) ==
    IF cv = Nil \/ cv.User = Nil \/ cv.AuthType # "jwt" THEN Nil ELSE cv

AuthorizedProvider(cv) ==
    IF \/ cv = Nil
       \/ cv.User = Nil
       \/ cv.AuthType # "jwt"
       \/ ~cv.User.EmailVerified
       \/ cv.User.Type # "PROVIDER"
    THEN Nil ELSE cv

AuthorizedRequester(cv) ==
    IF \/ cv = Nil
       \/ cv.User = Nil
       \/ cv.AuthType # "jwt"
       \/ ~cv.User.EmailVerified
       \/ ~cv.User.CanRequestWork
       \/ cv.User.Type # "REQUESTER"
    THEN Nil ELSE cv

\* AuthorizedServiceToken without the Type comparison
AuthorizedServiceTokenAnyType(cv) ==
    IF \/ cv = Nil
       \/ cv.User = Nil
       \/ cv.AuthType # "token"
       \/ ~cv.User.EmailVerified
       \/ ~cv.User.CanRequestWork
    THEN Nil ELSE cv

AuthorizedServiceToken(cv) ==
    IF \/ cv = Nil
       \/ cv.User = Nil
       \/ cv.AuthType # "token"
       \/ ~cv.User.EmailVerified
       \/ ~cv.User.CanRequestWork
       \/ cv.User.Type # "REQUESTER"
    THEN Nil ELSE cv

\* AuthorizedChangePassword also demanding a verified email
AuthorizedChangePasswordVerified(cv) ==
    IF \/ cv = Nil
       \/ cv.User = Nil
       \/ cv.AuthType # "token"
       \/ ~cv.User.EmailVerified
    THEN Nil ELSE cv

AuthorizedChangePassword(cv) ==
    IF cv = Nil \/ cv.User = Nil \/ cv.AuthType # "token" THEN Nil ELSE cv

(***************************************************************************)
(* Specification of the middleware: any collaborator state, then any      *)
(* sequence of requests                                                    *)
(***************************************************************************)
IdleAuth ==
    /\ serviceTokens = {} /\ serviceTokenUser = <<>> /\ resetTokens = {}
    /\ users = [k \in UserKeys |-> Nil]
    /\ header = <<>> /\ status = 0 /\ body = NoBody
    /\ nextCalls = 0 /\ ctxValue = Nil
IdleGate == gateCtx = Nil /\ gateName = "" /\ gateResult = Nil
IdleStats ==
    statsChan = <<>> /\ readPc = <<>> /\ sentCount = 0 /\ drained = <<>>
IdleAward ==
    /\ statsPc = <<>> /\ statsMsg = <<>> /\ workSeen = 0 /\ emitted = <<>>
    /\ bawPc = <<>> /\ bawMsg = <<>> /\ processed = <<>>

InitAuth ==
    /\ serviceTokens \in SUBSET ServiceHeaders
    /\ serviceTokenUser \in [ServiceHeaders -> UserIDs]
    /\ resetTokens \in SUBSET {"a@x", "c@x"}
    /\ users \in { [k \in UserKeys |-> IF k = "A" THEN a ELSE b] :
                     a \in UserRows("A") \cup {Nil},
                     b \in UserRows("B") \cup {Nil} }
    /\ header = <<>> /\ status = 0 /\ body = NoBody
    /\ nextCalls = 0 /\ ctxValue = Nil
    /\ IdleGate /\ IdleStats /\ IdleAward

NextAuth == \E h \in Headers : AuthMiddleware(h)

SpecAuth == InitAuth /\ [][NextAuth]_vars

\* the middleware has handled a request: it wrote a status or called next
Served == status # 0 \/ nextCalls > 0
IsResetScheme(h) == HasPrefix(h, ResetPasswordPrefix)
IsServiceScheme(h) == ~IsResetScheme(h) /\ HasPrefix(h, ServicePrefix)
IsBearerScheme(h) == h # <<>> /\ ~IsResetScheme(h) /\ ~IsServiceScheme(h)
VerifiedRequester(u) ==
    u # Nil /\ u.EmailVerified /\ u.CanRequestWork /\ u.Type = "REQUESTER"

GateAccepts(cv) ==
    { g \in {"AuthorizedUser", "AuthorizedProvider", "AuthorizedRequester",
             "AuthorizedServiceToken", "AuthorizedChangePassword"} :
        CASE g = "AuthorizedUser" -> AuthorizedUser(cv) # Nil
          [] g = "AuthorizedProvider" -> AuthorizedProvider(cv) # Nil
          [] g = "AuthorizedRequester" -> AuthorizedRequester(cv) # Nil
          [] g = "AuthorizedServiceToken" -> AuthorizedServiceToken(cv) # Nil
          [] OTHER -> AuthorizedChangePassword(cv) # Nil }
JwtGates == {"AuthorizedUser", "AuthorizedProvider", "AuthorizedRequester"}

\* C1: after a request whose Authorization header starts with "service:",
\* AuthorizedUser, AuthorizedProvider and AuthorizedRequester all return nil
\* on the context handed to next; and whenever one of the three accepts the
\* context of a served request, the request went through the bare-bearer
\* branch.
C1_ServiceNeverPassesJwtGates ==
    Served =>
        /\ HasPrefix(header, ServicePrefix) =>
              /\ AuthorizedUser(ctxValue) = Nil
              /\ AuthorizedProvider(ctxValue) = Nil
              /\ AuthorizedRequester(ctxValue) = Nil
        /\ GateAccepts(ctxValue) \cap JwtGates # {} => IsBearerScheme(header)

C1_Witness ==
    /\ Served
    /\ HasPrefix(header, ServicePrefix)
    /\ ctxValue # Nil
    /\ VerifiedRequester(ctxValue.User)
    /\ header \in serviceTokens

\* some credential check of the scheme h selects fails
CredentialCheckFails(h) ==
    \/ /\ IsResetScheme(h)
       /\ LET parsed == ParseToken(TrimLen(h, ResetPasswordPrefix))
          IN  parsed.err \/ parsed.email \notin resetTokens
    \/ /\ IsServiceScheme(h)
       /\ \/ h \notin serviceTokens
          \/ GetServiceTokenUser(h).err
          \/ GetServiceTokenUser(h).userID \notin UUIDs
    \/ /\ IsBearerScheme(h)
       /\ ParseToken(h).err

\* C2: a request with a non-empty Authorization header that fails a
\* credential check of its scheme is answered 403, next is never invoked
\* and no context value is attached.
C2_FailedCredentialIs403 ==
    (Served /\ header # <<>> /\ CredentialCheckFails(header)) =>
        /\ status = 403
        /\ nextCalls = 0
        /\ ctxValue = Nil

C2_Witness ==
    /\ Served
    /\ header \in serviceTokens
    /\ serviceTokenUser[header] = "not-a-uuid"
    /\ status = 403

\* the identity lookup the scheme of h performs finds no row
IdentityMissing(h) ==
    IF IsServiceScheme(h)
    THEN GetUser(GetServiceTokenUser(h).userID, "").err
    ELSE IF IsResetScheme(h)
    THEN GetUser("", ParseToken(TrimLen(h, ResetPasswordPrefix)).email).err
    ELSE GetUser("", ParseToken(h).email).err

\* C3: in each token scheme, when every credential check passes and the
\* identity lookup finds nothing, next is invoked exactly once with the
\* original context (no context value, every gate returns nil) and no 403
\* is written.
C3_UnknownIdentityPassesThrough ==
    (/\ Served
     /\ header # <<>>
     /\ ~CredentialCheckFails(header)
     /\ IdentityMissing(header)) =>
        /\ nextCalls = 1
        /\ status # 403
        /\ ctxValue = Nil
        /\ GateAccepts(ctxValue) = {}

C3_Witness ==
    /\ Served
    /\ IsResetScheme(header)
    /\ ~CredentialCheckFails(header)
    /\ IdentityMissing(header)
    /\ nextCalls = 1

\* C6: every rejection is status 403 with the one error envelope whose only
\* message is exactly "Invalid Token".
C6_RejectionBodyIsInvalidToken ==
    (Served /\ nextCalls = 0) =>
        /\ status = 403
        /\ body = [errors |-> <<[message |-> "Invalid Token"]>>]

\* C7: after a request authenticated through the service: scheme the only
\* gate that can accept the context is AuthorizedServiceToken; in
\* particular AuthorizedChangePassword returns nil.
C7_ServiceOnlyServiceTokenGate ==
    (Served /\ IsServiceScheme(header)) =>
        /\ GateAccepts(ctxValue) \subseteq {"AuthorizedServiceToken"}
        /\ AuthorizedChangePassword(ctxValue) = Nil

\* C8: after a request authenticated through the resetpassword: scheme the
\* only gate that can accept the context is AuthorizedChangePassword; in
\* particular AuthorizedServiceToken returns nil.
C8_ResetOnlyChangePasswordGate ==
    (Served /\ IsResetScheme(header)) =>
        /\ GateAccepts(ctxValue) \subseteq {"AuthorizedChangePassword"}
        /\ AuthorizedServiceToken(ctxValue) = Nil

(***************************************************************************)
(* Specification of the gate predicates as functions: any context value,  *)
(* then any predicate applied to it                                        *)
(***************************************************************************)
AuthTypes == {"jwt", "token"}
ContextValues ==
    {Nil} \cup [User : {Nil} \cup UserRows("A") \cup UserRows("B"),
                AuthType : AuthTypes]

ApplyAuthorizedUser ==
    /\ gateName' = "AuthorizedUser"
    /\ gateResult' = AuthorizedUser(gateCtx)
    /\ UNCHANGED <<gateCtx, authEnv, authReq, statsVars, awardVars>>

ApplyAuthorizedProvider ==
    /\ gateName' = "AuthorizedProvider"
    /\ gateResult' = AuthorizedProvider(gateCtx)
    /\ UNCHANGED <<gateCtx, authEnv, authReq, statsVars, awardVars>>

ApplyAuthorizedRequester ==
    /\ gateName' = "AuthorizedRequester"
    /\ gateResult' = AuthorizedRequester(gateCtx)
    /\ UNCHANGED <<gateCtx, authEnv, authReq, statsVars, awardVars>>

ApplyAuthorizedServiceToken ==
    /\ gateName' = "AuthorizedServiceToken"
    /\ gateResult' = AuthorizedServiceToken(gateCtx)
    /\ UNCHANGED <<gateCtx, authEnv, authReq, statsVars, awardVars>>

ApplyAuthorizedChangePassword ==
    /\ gateName' = "AuthorizedChangePassword"
    /\ gateResult' = AuthorizedChangePassword(gateCtx)
    /\ UNCHANGED <<gateCtx, authEnv, authReq, statsVars, awardVars>>

InitGate ==
    /\ gateCtx \in ContextValues
    /\ gateName = "" /\ gateResult = Nil
    /\ IdleAuth /\ IdleStats /\ IdleAward

NextGate ==
    \/ ApplyAuthorizedUser
    \/ ApplyAuthorizedProvider
    \/ ApplyAuthorizedRequester
    \/ ApplyAuthorizedServiceToken
    \/ ApplyAuthorizedChangePassword

SpecGate == InitGate /\ [][NextGate]_vars

HasIdentity(cv) == cv # Nil /\ cv.User # Nil

\* C4: AuthorizedServiceToken returns nil whenever the identity is a
\* PROVIDER (whatever the trust level and the flags) and whenever the trust
\* level is jwt (whatever the identity); it returns the context exactly
\* when the trust level is token and the identity is an email-verified
\* REQUESTER that can request work.
C4_ServiceTokenGate ==
    gateName = "AuthorizedServiceToken" =>
        /\ (HasIdentity(gateCtx) /\ gateCtx.User.Type = "PROVIDER")
              => gateResult = Nil
        /\ (gateCtx # Nil /\ gateCtx.AuthType = "jwt") => gateResult = Nil
        /\ gateResult # Nil <=>
              /\ HasIdentity(gateCtx)
              /\ gateCtx.AuthType = "token"
              /\ VerifiedRequester(gateCtx.User)
        /\ gateResult # Nil => gateResult = gateCtx

C4_Witness ==
    /\ gateName = "AuthorizedServiceToken"
    /\ HasIdentity(gateCtx)
    /\ gateCtx.AuthType = "token"
    /\ gateCtx.User.Type = "PROVIDER"
    /\ gateCtx.User.EmailVerified
    /\ gateCtx.User.CanRequestWork
    /\ gateResult = Nil

StatsChanCapPlusOne == 100 + 1

\* statsChan := make(chan repository.WorkMessage, 100)
StatsChanCap == 100

\* the worker connections whose read loops submit work messages
Conns == {"conn1", "conn2"}
\* submissions begun over a run
MaxSubmissions == 102

Sending == { c \in Conns : readPc[c] = "sending" }

\* a read loop has decoded a frame and reaches its send on statsChan
ReadFrame(c) ==
    /\ readPc[c] = "reading"
    /\ sentCount + Cardinality(Sending) < MaxSubmissions
    /\ readPc' = [readPc EXCEPT ![c] = "sending"]
    /\ UNCHANGED <<statsChan, sentCount, drained>>
    /\ UNCHANGED <<authEnv, authReq, gateVars, awardVars>>

\* statsChan <- msg : completes only while the buffer has a free slot
SendStats(c) ==
    /\ readPc[c] = "sending"
    /\ Len(statsChan) < StatsChanCap
    /\ statsChan' = Append(statsChan, sentCount + 1)
    /\ sentCount' = sentCount + 1
    /\ readPc' = [readPc EXCEPT ![c] = "reading"]
    /\ UNCHANGED drained
    /\ UNCHANGED <<authEnv, authReq, gateVars, awardVars>>

\* StatsWorker: msg := <-statsChan
StatsWorkerReceive ==
    /\ Len(statsChan) > 0
    /\ drained' = Append(drained, Head(statsChan))
    /\ statsChan' = Tail(statsChan)
    /\ UNCHANGED <<readPc, sentCount>>
    /\ UNCHANGED <<authEnv, authReq, gateVars, awardVars>>

InitStats ==
    /\ statsChan = <<>>
    /\ readPc = [c \in Conns |-> "reading"]
    /\ sentCount = 0
    /\ drained = <<>>
    /\ IdleAuth /\ IdleGate /\ IdleAward

NextStats ==
    \/ \E c \in Conns : ReadFrame(c)
    \/ \E c \in Conns : SendStats(c)
    \/ StatsWorkerReceive

SpecStats == InitStats /\ [][NextStats]_vars

\* C9: statsChan never holds more than 100 messages; a send completes
\* without blocking exactly while fewer than 100 are queued, so with nothing
\* drained the first 100 sends go through and the 101st is blocked, and at
\* most one more send completes per message drained; the messages drained
\* followed by the messages queued are the completed sends, each once and
\* in the order the sends completed.
C9_StatsChanBounded ==
    /\ Len(statsChan) <= 100
    /\ \A c \in Sending : ENABLED SendStats(c) <=> Len(statsChan) < 100
    /\ drained = <<>> => \A c \in Sending :
          /\ sentCount < 100 => ENABLED SendStats(c)
          /\ sentCount = 100 => ~ENABLED SendStats(c)
    /\ sentCount <= Len(drained) + 100
    /\ drained \o statsChan = [i \in 1..sentCount |-> i]

C9_Witness ==
    /\ Len(drained) = 1
    /\ sentCount = 101
    /\ Len(statsChan) = 100
    /\ Sending # {}

(***************************************************************************)
(* blockAwardedChan: the unbuffered channel of block-awarded messages,    *)
(* the StatsWorker goroutine that sends on it and the BlockAwardedWorker  *)
(* goroutine that receives from it.                                        *)
(***************************************************************************)
\* BlockAwardedWorker started twice on the same channel
BlockAwardedWorkersTwice == {"baw", "baw2"}

\* go workRepo.StatsWorker(statsChan, &blockAwardedChan)
StatsWorkers == {"sw"}
\* go controller.ActiveHub.BlockAwardedWorker(blockAwardedChan)
BlockAwardedWorkers == {"baw"}

\* the clients a block-awarded message may be addressed to
Clients == {"client1", "client2"}
\* work messages handled over a run
MaxWork == 6
NoMsg == [id |-> 0, client |-> ""]

\* StatsWorker handles a work message that awards nothing
StatsWorkerNoAward(w) ==
    /\ statsPc[w] = "loop"
    /\ workSeen < MaxWork
    /\ workSeen' = workSeen + 1
    /\ UNCHANGED <<statsPc, statsMsg, emitted, bawPc, bawMsg, processed>>
    /\ UNCHANGED <<authEnv, authReq, gateVars, statsVars>>

\* StatsWorker handles a work message that awards a block: it builds the
\* client message and reaches its send on blockAwardedChan
StatsWorkerAward(w, client) ==
    /\ statsPc[w] = "loop"
    /\ workSeen < MaxWork
    /\ workSeen' = workSeen + 1
    /\ LET msg == [id |-> Len(emitted) + 1, client |-> client]
       IN  /\ statsMsg' = [statsMsg EXCEPT ![w] = msg]
           /\ emitted' = Append(emitted, msg)
    /\ statsPc' = [statsPc EXCEPT ![w] = "sending"]
    /\ UNCHANGED <<bawPc, bawMsg, processed>>
    /\ UNCHANGED <<authEnv, authReq, gateVars, statsVars>>

\* blockAwardedChan := make(chan serializableModels.ClientMessage): a send
\* and a receive complete together, the message passing from one to the other
BlockAwardedRendezvous(w, b) ==
    /\ statsPc[w] = "sending"
    /\ bawPc[b] = "receiving"
    /\ bawMsg' = [bawMsg EXCEPT ![b] = statsMsg[w]]
    /\ bawPc' = [bawPc EXCEPT ![b] = "handling"]
    /\ statsMsg' = [statsMsg EXCEPT ![w] = NoMsg]
    /\ statsPc' = [statsPc EXCEPT ![w] = "loop"]
    /\ UNCHANGED <<workSeen, emitted, processed>>
    /\ UNCHANGED <<authEnv, authReq, gateVars, statsVars>>

\* BlockAwardedWorker handles the message it received and loops
BlockAwardedHandle(b) ==
    /\ bawPc[b] = "handling"
    /\ processed' = Append(processed, bawMsg[b])
    /\ bawMsg' = [bawMsg EXCEPT ![b] = NoMsg]
    /\ bawPc' = [bawPc EXCEPT ![b] = "receiving"]
    /\ UNCHANGED <<statsPc, statsMsg, workSeen, emitted>>
    /\ UNCHANGED <<authEnv, authReq, gateVars, statsVars>>

InitAward ==
    /\ statsPc = [w \in StatsWorkers |-> "loop"]
    /\ statsMsg = [w \in StatsWorkers |-> NoMsg]
    /\ workSeen = 0
    /\ emitted = <<>>
    /\ bawPc = [b \in BlockAwardedWorkers |-> "receiving"]
    /\ bawMsg = [b \in BlockAwardedWorkers |-> NoMsg]
    /\ processed = <<>>
    /\ IdleAuth /\ IdleGate /\ IdleStats

NextAward ==
    \/ \E w \in StatsWorkers : StatsWorkerNoAward(w)
    \/ \E w \in StatsWorkers, client \in Clients : StatsWorkerAward(w, client)
    \/ \E w \in StatsWorkers, b \in BlockAwardedWorkers :
          BlockAwardedRendezvous(w, b)
    \/ \E b \in BlockAwardedWorkers : BlockAwardedHandle(b)

SpecAward == InitAward /\ [][NextAward]_vars

Range(f) == { f[x] : x \in DOMAIN f }
\* the messages between their emission and the end of their handling
InFlight ==
    { statsMsg[w] : w \in { v \in DOMAIN statsPc : statsPc[v] = "sending" } }
    \cup { bawMsg[b] : b \in { v \in DOMAIN bawPc : bawPc[v] = "handling" } }

\* C10: the messages the BlockAwardedWorker has handled are, in order, a
\* prefix of the messages the StatsWorker has emitted; every emitted
\* message is handled or still on its way, never both and never twice.
C10_RewardsInEmissionOrder ==
    /\ Len(processed) <= Len(emitted)
    /\ processed = SubSeq(emitted, 1, Len(processed))
    /\ Range(emitted) = Range(processed) \cup InFlight
    /\ Range(processed) \cap InFlight = {}
    /\ Len(emitted) = Len(processed) + Cardinality(InFlight)

C10_Witness ==
    /\ Len(processed) >= 3
    /\ processed[1].client # processed[2].client
    /\ Len(emitted) > Len(processed)

====
